---- MODULE Spec2Model ----
(***************************************************************************)
(* Model of git-commit-ai: the Gemini client's prompt construction         *)
(* (GeminiClient.buildPrompt) and response parsing                         *)
(* (GeminiClient.parseResponse), the analysis of the staged changes        *)
(* (GitAnalyzer.getStagedChanges) and the generate command of the CLI.     *)
(*                                                                         *)
(* Text is modelled as a sequence of atoms.  An atom is an indivisible run *)
(* of characters, string concatenation is \o, and a JavaScript string      *)
(* value is the sequence of its atoms.  In a response, an atom is one of   *)
(* the special characters the parser or the JSON grammar looks at          *)
(* (newline, space, quote, colon, comma, braces, brackets), the            *)
(* three-backtick fence marker, a numeric literal, or a word that contains *)
(* none of the special characters.  In a prompt, an atom is a newline, a   *)
(* literal fragment of the template, or one interpolated input value.      *)
(***************************************************************************)
EXTENDS Integers, Sequences, FiniteSets, TLC

VARIABLES
    response,       \* parseResponse: the raw text handed to the parser
    parsePc,        \* parseResponse: "start" before the call, "done" after it
    result,         \* parseResponse: the outcome of the call
    diffs,          \* buildPrompt: the GitDiff records
    config,         \* buildPrompt: the Config
    recentCommits,  \* buildPrompt: the recent commit subjects, newest first
    branchName,     \* buildPrompt: the current branch
    promptPc,       \* buildPrompt: "start" before the call, "done" after it
    prompt,         \* buildPrompt: the returned string
    git,            \* getStagedChanges: what the repository reports
    stagedPc,       \* getStagedChanges: "start" before the call, "done" after it
    stagedResult,   \* getStagedChanges: the returned records or the thrown error
    options,        \* generate: the command-line options
    geminiApiKey,   \* generate: config.geminiApiKey as loadConfig returns it
    repository,     \* generate: what the repository reports to the analysis
    genPc,          \* generate: the step the command is at
    suggestionList, \* generate: the list returned by generateCommitMessage
    selected,       \* generate: the answer of the selection menu
    selectedMessage,\* generate: the message to commit with
    effects,        \* generate: the external calls made so far, in order
    exitCode        \* generate: the status the process ends with

parseVars == <<response, parsePc, result>>
promptVars == <<diffs, config, recentCommits, branchName, promptPc, prompt>>
stagedVars == <<git, stagedPc, stagedResult>>
genVars == <<options, geminiApiKey, repository, genPc, suggestionList, selected,
             selectedMessage, effects, exitCode>>

vars == <<response, parsePc, result, diffs, config, recentCommits, branchName,
          promptPc, prompt, git, stagedPc, stagedResult, options, geminiApiKey,
          repository, genPc, suggestionList, selected, selectedMessage, effects,
          exitCode>>

----------------------------------------------------------------------------
(* Bounds of the input space *)

\* longest `suggestions` array generated for a structured payload
MaxSugg == 4
\* largest number of lines of an unstructured (prose) response
MaxLines == 4
\* largest number of GitDiff records handed to buildPrompt
MaxDiffs == 2
\* largest number of change lines of one generated GitDiff record
MaxChanges == 6
\* largest number of recent commit subjects handed to buildPrompt
MaxCommits == 6

----------------------------------------------------------------------------
(* Atoms and text helpers (JavaScript String methods) *)

NL == "\n"
SP == " "
QUOTE == "\""
\* the markdown code-fence marker (three backticks)
FENCE == "<fence>"
EOF == "<eof>"

\* whitespace atoms, as String.prototype.trim and the JSON grammar see them
IsWs(tok) == tok \in {SP, NL}

At(s, i) == IF i \in 1..Len(s) THEN s[i] ELSE EOF

MinOf(S) == CHOOSE i \in S : \A j \in S : i <= j
MaxOf(S) == CHOOSE i \in S : \A j \in S : i >= j

\* String.prototype.trim
Trim(text) ==
    LET keep == {i \in 1..Len(text) : ~IsWs(text[i])}
    IN  IF keep = {} THEN <<>> ELSE SubSeq(text, MinOf(keep), MaxOf(keep))

\* response.replace(/\n?/g, ''): every match of the pattern is either one
\* newline or the empty string, so the call deletes the newlines and
\* nothing else
ReplaceNewlines(text) == SelectSeq(text, LAMBDA tok : tok # NL)

\* String.prototype.split('\n')
RECURSIVE Split(_)
Split(text) ==
    LET nls == {i \in 1..Len(text) : text[i] = NL}
    IN  IF nls = {} THEN <<text>>
        ELSE LET k == MinOf(nls)
             IN  <<SubSeq(text, 1, k - 1)>> \o Split(SubSeq(text, k + 1, Len(text)))

\* line.includes(':')
Includes(line, tok) == \E i \in 1..Len(line) : line[i] = tok

\* line.startsWith('{')
StartsWith(line, tok) == Len(line) > 0 /\ line[1] = tok

\* Array.prototype.slice(0, n)
Slice(seq, n) == SubSeq(seq, 1, IF Len(seq) < n THEN Len(seq) ELSE n)

----------------------------------------------------------------------------
(* JavaScript values *)

Undefined == [t |-> "undefined"]
Null == [t |-> "null"]
Bool(b) == [t |-> "boolean", b |-> b]
\* a number is the fraction n/d in lowest terms, d > 0
Num(n, d) == [t |-> "number", n |-> n, d |-> d]
Str(s) == [t |-> "string", s |-> s]
Arr(a) == [t |-> "array", a |-> a]
\* an object is the sequence of its members [k, v] in source order
Obj(m) == [t |-> "object", m |-> m]

\* ToBoolean
Truthy(v) ==
    CASE v.t = "undefined" -> FALSE
      [] v.t = "null" -> FALSE
      [] v.t = "boolean" -> v.b
      [] v.t = "number" -> v.n # 0
      [] v.t = "string" -> v.s # <<>>
      [] OTHER -> TRUE

\* a || b
Or(a, b) == IF Truthy(a) THEN a ELSE b

\* v[key]: a TypeError on null and undefined; the member of an object (the
\* last one when the key is repeated); undefined on every other value for
\* the keys the parser reads
GetProp(v, key) ==
    IF v.t \in {"null", "undefined"} THEN [threw |-> TRUE, v |-> Undefined]
    ELSE IF v.t = "object"
         THEN LET hits == {i \in 1..Len(v.m) : v.m[i].k = key}
              IN  [threw |-> FALSE,
                   v |-> IF hits = {} THEN Undefined ELSE v.m[MaxOf(hits)].v]
         ELSE [threw |-> FALSE, v |-> Undefined]

----------------------------------------------------------------------------
(* JSON.parse over atoms *)

\* the numeric literals of the input space and their values
NumLit ==
    ("0" :> Num(0, 1)) @@ ("5" :> Num(5, 1)) @@ ("90" :> Num(90, 1)) @@
    ("100" :> Num(100, 1)) @@ ("150" :> Num(150, 1)) @@
    ("-5" :> Num(0 - 5, 1)) @@ ("0.5" :> Num(1, 2))

Fail == [ok |-> FALSE, v |-> Undefined, next |-> 0]

RECURSIVE SkipWs(_, _)
SkipWs(s, i) == IF i <= Len(s) /\ IsWs(s[i]) THEN SkipWs(s, i + 1) ELSE i

\* a string literal whose opening quote is at i - 1
ParseString(s, i) ==
    LET closers == {k \in i..Len(s) : s[k] = QUOTE}
    IN  IF closers = {} THEN Fail
        ELSE LET k == MinOf(closers)
                 content == SubSeq(s, i, k - 1)
             IN  IF Includes(content, NL) THEN Fail
                 ELSE [ok |-> TRUE, v |-> Str(content), next |-> k + 1]

RECURSIVE ParseValue(_, _)
RECURSIVE ParseElements(_, _, _)
RECURSIVE ParseMembers(_, _, _)

ParseValue(s, i) ==
    LET j == SkipWs(s, i)
        tok == At(s, j)
    IN  CASE tok = "{" ->
               IF At(s, SkipWs(s, j + 1)) = "}"
               THEN [ok |-> TRUE, v |-> Obj(<<>>), next |-> SkipWs(s, j + 1) + 1]
               ELSE ParseMembers(s, j + 1, <<>>)
          [] tok = "[" ->
               IF At(s, SkipWs(s, j + 1)) = "]"
               THEN [ok |-> TRUE, v |-> Arr(<<>>), next |-> SkipWs(s, j + 1) + 1]
               ELSE ParseElements(s, j + 1, <<>>)
          [] tok = QUOTE -> ParseString(s, j + 1)
          [] tok = "null" -> [ok |-> TRUE, v |-> Null, next |-> j + 1]
          [] tok = "true" -> [ok |-> TRUE, v |-> Bool(TRUE), next |-> j + 1]
          [] tok = "false" -> [ok |-> TRUE, v |-> Bool(FALSE), next |-> j + 1]
          [] tok \in DOMAIN NumLit -> [ok |-> TRUE, v |-> NumLit[tok], next |-> j + 1]
          [] OTHER -> Fail

\* the elements of an array, from position i on, up to the closing bracket
ParseElements(s, i, acc) ==
    LET el == ParseValue(s, i)
    IN  IF ~el.ok THEN Fail
        ELSE LET j == SkipWs(s, el.next)
                 tok == At(s, j)
             IN  CASE tok = "," -> ParseElements(s, j + 1, Append(acc, el.v))
                   [] tok = "]" -> [ok |-> TRUE, v |-> Arr(Append(acc, el.v)), next |-> j + 1]
                   [] OTHER -> Fail

\* the members of an object, from position i on, up to the closing brace
ParseMembers(s, i, acc) ==
    LET k == SkipWs(s, i)
    IN  IF At(s, k) # QUOTE THEN Fail
        ELSE LET key == ParseString(s, k + 1)
             IN  IF ~key.ok THEN Fail
                 ELSE LET c == SkipWs(s, key.next)
                      IN  IF At(s, c) # ":" THEN Fail
                          ELSE LET val == ParseValue(s, c + 1)
                               IN  IF ~val.ok THEN Fail
                                   ELSE LET e == SkipWs(s, val.next)
                                            tok == At(s, e)
                                            mem == Append(acc, [k |-> key.v.s, v |-> val.v])
                                        IN  CASE tok = "," -> ParseMembers(s, e + 1, mem)
                                              [] tok = "}" -> [ok |-> TRUE, v |-> Obj(mem), next |-> e + 1]
                                              [] OTHER -> Fail

\* JSON.parse: a value, or a SyntaxError
JSONParse(text) ==
    LET r == ParseValue(text, 1)
    IN  IF r.ok /\ SkipWs(text, r.next) > Len(text)
        THEN [threw |-> FALSE, v |-> r.v]
        ELSE [threw |-> TRUE, v |-> Undefined]

----------------------------------------------------------------------------
(* GeminiClient.parseResponse *)

DefaultMessage == Str(<<>>)
DefaultConfidence == Num(50, 1)
DefaultReasoning == Str(<<"No reasoning provided">>)
FallbackConfidence == Num(70, 1)
FallbackReasoning == Str(<<"Extracted from AI response">>)

\* the callback of parsed.suggestions.map: reading a property of null is a
\* TypeError, every other element yields a suggestion
MapSuggestion(suggestion) ==
    IF GetProp(suggestion, <<"message">>).threw
    THEN [threw |-> TRUE, value |-> Undefined]
    ELSE [threw |-> FALSE,
          value |-> [message |-> Or(GetProp(suggestion, <<"message">>).v, DefaultMessage),
                     confidence |-> Or(GetProp(suggestion, <<"confidence">>).v, DefaultConfidence),
                     reasoning |-> Or(GetProp(suggestion, <<"reasoning">>).v, DefaultReasoning)]]

\* the body of the try block: "return" with the mapped list, "throw" when
\* JSON.parse or a property read throws, "none" when the if is not taken
TryStructured(raw) ==
    LET cleanResponse == Trim(ReplaceNewlines(ReplaceNewlines(raw)))
        parsed == JSONParse(cleanResponse)
        sugg == GetProp(parsed.v, <<"suggestions">>)
        mapped == [i \in 1..Len(sugg.v.a) |-> MapSuggestion(sugg.v.a[i])]
    IN  IF parsed.threw \/ sugg.threw THEN [kind |-> "throw", value |-> <<>>]
        ELSE IF Truthy(sugg.v) /\ sugg.v.t = "array"
             THEN IF \E i \in 1..Len(mapped) : mapped[i].threw
                  THEN [kind |-> "throw", value |-> <<>>]
                  ELSE [kind |-> "return",
                        value |-> [i \in 1..Len(mapped) |-> mapped[i].value]]
             ELSE [kind |-> "none", value |-> <<>>]

\* the for loop with the test for a colon left out
RECURSIVE ExtractLoopNoColon(_, _, _)
ExtractLoopNoColon(lines, i, suggestions) ==
    IF i > Len(lines) THEN suggestions
    ELSE LET line == lines[i]
         IN  IF ~StartsWith(line, "{") /\ ~StartsWith(line, "}")
             THEN ExtractLoopNoColon(lines, i + 1,
                                     Append(suggestions,
                                            [message |-> Str(Trim(line)),
                                             confidence |-> Num(70, 1),
                                             reasoning |-> Str(<<"Extracted from AI response">>)]))
             ELSE ExtractLoopNoColon(lines, i + 1, suggestions)

\* the for loop over the non-blank lines
RECURSIVE ExtractLoop(_, _, _)
ExtractLoop(lines, i, suggestions) ==
    IF i > Len(lines) THEN suggestions
    ELSE LET line == lines[i]
         IN  IF Includes(line, ":") /\ ~StartsWith(line, "{") /\ ~StartsWith(line, "}")
             THEN ExtractLoop(lines, i + 1,
                              Append(suggestions,
                                     [message |-> Str(Trim(line)),
                                      confidence |-> FallbackConfidence,
                                      reasoning |-> FallbackReasoning]))
             ELSE ExtractLoop(lines, i + 1, suggestions)

\* the fallback extraction returning the whole list instead of slice(0, 3)
FallbackNoSlice(raw) ==
    ExtractLoop(SelectSeq(Split(raw), LAMBDA line : Trim(line) # <<>>), 1, <<>>)

\* the fallback extraction after the try statement
Fallback(raw) ==
    LET lines == SelectSeq(Split(raw), LAMBDA line : Trim(line) # <<>>)
    IN  Slice(ExtractLoop(lines, 1, <<>>), 3)

\* parseResponse without the catch clause: an error of the try block
\* propagates to the caller
parseResponseNoCatch(raw) ==
    LET t == TryStructured(raw)
    IN  IF t.kind = "return"
        THEN [threw |-> FALSE, path |-> "structured", warned |-> FALSE, value |-> t.value]
        ELSE IF t.kind = "throw"
             THEN [threw |-> TRUE, path |-> "structured", warned |-> FALSE, value |-> <<>>]
             ELSE [threw |-> FALSE, path |-> "fallback", warned |-> FALSE,
                   value |-> Fallback(raw)]

\* parseResponse as a whole: what it returns (or that it threw), the path
\* that produced it and whether the catch clause logged its warning
parseResponse(raw) ==
    LET t == TryStructured(raw)
    IN  IF t.kind = "return"
        THEN [threw |-> FALSE, path |-> "structured", warned |-> FALSE, value |-> t.value]
        ELSE [threw |-> FALSE, path |-> "fallback", warned |-> (t.kind = "throw"),
              value |-> Fallback(raw)]

----------------------------------------------------------------------------
(* The raw responses the parser is run on *)

RECURSIVE Join(_, _)
Join(texts, sep) ==
    IF Len(texts) = 0 THEN <<>>
    ELSE IF Len(texts) = 1 THEN texts[1]
    ELSE texts[1] \o sep \o Join(Tail(texts), sep)

\* a layout is the whitespace written after an opening bracket or a comma
\* (nl) and after a colon (sp)
Compact == [nl |-> <<>>, sp |-> <<>>]
Pretty == [nl |-> <<NL, SP>>, sp |-> <<SP>>]
Layouts == {Compact, Pretty}

Lit(content) == <<QUOTE>> \o content \o <<QUOTE>>
Field(key, val, L) == Lit(<<key>>) \o <<":">> \o L.sp \o val
Record(fields, L) ==
    IF Len(fields) = 0 THEN <<"{", "}">>
    ELSE <<"{">> \o L.nl \o Join(fields, <<",">> \o L.nl) \o L.nl \o <<"}">>
Array(elems, L) ==
    IF Len(elems) = 0 THEN <<"[", "]">>
    ELSE <<"[">> \o L.nl \o Join(elems, <<",">> \o L.nl) \o L.nl \o <<"]">>

MsgLogin == <<"feat", ":", SP, "add login">>
MsgFix == <<"fix bug">>

\* the elements that fill arrays of every length up to MaxSugg
CoreElements(L) ==
    { Record(<<Field("message", Lit(MsgLogin), L), Field("confidence", <<"90">>, L),
               Field("reasoning", Lit(<<"why">>), L)>>, L),
      Record(<<Field("message", Lit(<<"x">>), L)>>, L),
      <<"null">> }

\* further elements, each tried as the only element of the array
WideElements(L) ==
    { Record(<<Field("message", Lit(<<>>), L), Field("confidence", <<"0">>, L),
               Field("reasoning", Lit(<<>>), L)>>, L),
      Record(<<Field("message", Lit(MsgFix), L), Field("confidence", <<"150">>, L)>>, L),
      Record(<<Field("message", Lit(MsgFix), L), Field("confidence", <<"-5">>, L)>>, L),
      Record(<<Field("message", Lit(MsgFix), L), Field("confidence", <<"0.5">>, L)>>, L),
      Record(<<Field("message", Lit(MsgFix), L), Field("confidence", Lit(<<"high">>), L)>>, L),
      Record(<<Field("message", Lit(MsgFix), L), Field("confidence", <<"null">>, L),
               Field("reasoning", <<"false">>, L)>>, L),
      Record(<<Field("confidence", <<"100">>, L), Field("reasoning", Lit(<<"why">>), L)>>, L),
      Record(<<>>, L),
      <<"5">>,
      Lit(<<"x">>) }

SuggArrays(L) ==
    UNION {[1..n -> CoreElements(L)] : n \in 0..MaxSugg}
        \cup {<<e>> : e \in WideElements(L)}

Payload(elems, L) == Record(<<Field("suggestions", Array(elems, L), L)>>, L)

Wraps == {"none", "fence", "fencejson"}
Wrap(text, w) ==
    CASE w = "none" -> text
      [] w = "fence" -> <<FENCE, NL>> \o text \o <<NL, FENCE>>
      [] w = "fencejson" -> <<FENCE, "json", NL>> \o text \o <<NL, FENCE>>

\* payloads with a top-level `suggestions` sequence
StructuredResponses ==
    UNION {{Wrap(Payload(es, L), w) : es \in SuggArrays(L), w \in Wraps} : L \in Layouts}

FullElement == Record(<<Field("message", Lit(MsgLogin), Compact),
                         Field("confidence", <<"90">>, Compact),
                         Field("reasoning", Lit(<<"why">>), Compact)>>, Compact)

\* valid JSON without a `suggestions` sequence
OtherPayloads ==
    { <<"null">>, <<"5">>, <<"true">>, Lit(<<"feat", ":", SP, "x">>),
      Array(<<FullElement>>, Compact),
      Record(<<>>, Compact),
      Record(<<Field("suggestions", <<"null">>, Compact)>>, Compact),
      Record(<<Field("suggestions", Lit(MsgLogin), Compact)>>, Pretty),
      Record(<<Field("suggestions", FullElement, Compact)>>, Compact),
      Record(<<Field("suggestions", <<"0">>, Compact)>>, Compact),
      Record(<<Field("other", Array(<<FullElement>>, Compact), Compact)>>, Pretty),
      Record(<<Field("suggestions", Array(<<FullElement>>, Compact), Compact),
               Field("suggestions", <<"5">>, Compact)>>, Compact) }

\* syntactically invalid payloads
InvalidPayloads ==
    { <<"{">> \o Field("suggestions", Array(<<FullElement>>, Compact), Compact),
      <<"{">> \o Field("suggestions", <<"[">> \o FullElement \o <<",", "]">>, Compact) \o <<"}">>,
      <<"{", "suggestions", ":", "[", "]", "}">>,
      <<"Here you go", ":", SP>> \o Payload(<<FullElement>>, Compact),
      Payload(<<FullElement>>, Compact) \o <<NL, "Hope this helps", ":", SP, "bye">> }

\* the lines of unstructured responses
ProseLines ==
    { <<"not json at all">>,
      MsgLogin,
      <<"random line without colon">>,
      <<>>,
      <<SP, "fix", ":", SP, "typo", SP>>,
      <<"{", "a", ":", "b">>,
      <<SP, "}", ":", "x">> }

ProseResponses ==
    {Join(ls, <<NL>>) : ls \in UNION {[1..n -> ProseLines] : n \in 0..MaxLines}}

Responses ==
    StructuredResponses \cup {Wrap(p, w) : p \in OtherPayloads \cup InvalidPayloads, w \in Wraps}
        \cup ProseResponses

----------------------------------------------------------------------------
(* GeminiClient.buildPrompt *)

\* the per-file block with every change line rendered (no slice(0, 5))
RenderDiffAllChanges(diff) ==
    <<"File: ", diff.file, " ", "(+", ToString(diff.additions), "/-",
      ToString(diff.deletions), ")", NL,
      "Status: ", diff.status, NL,
      "Key changes:", NL,
      "  ">> \o Join([i \in 1..Len(diff.changes) |-> <<diff.changes[i]>>], <<NL, "  ">>)

\* the callback of diffs.map: the block rendered for one GitDiff
RenderDiff(diff) ==
    LET changeType == diff.status
        stats == <<"(+", ToString(diff.additions), "/-", ToString(diff.deletions), ")">>
        shown == Slice(diff.changes, 5)
        changes == Join([i \in 1..Len(shown) |-> <<shown[i]>>], <<NL, "  ">>)
    IN  <<"File: ", diff.file, " ">> \o stats \o <<NL,
          "Status: ", changeType, NL,
          "Key changes:", NL,
          "  ">> \o changes

\* changesDescription
ChangesDescription(ds) ==
    Join([i \in 1..Len(ds) |-> RenderDiff(ds[i])], <<NL, NL>>)

\* the recent-commit block with every subject rendered (no slice(0, 5))
RecentCommitsContextAll(commits) ==
    IF Len(commits) > 0
    THEN <<"Recent commits for context:", NL>>
             \o Join([i \in 1..Len(commits) |-> <<"- ", commits[i]>>], <<NL>>)
             \o <<NL, NL>>
    ELSE <<>>

\* recentCommitsContext
RecentCommitsContext(commits) ==
    IF Len(commits) > 0
    THEN <<"Recent commits for context:", NL>>
             \o Join([i \in 1..Len(Slice(commits, 5)) |-> <<"- ", Slice(commits, 5)[i]>>],
                     <<NL>>)
             \o <<NL, NL>>
    ELSE <<>>

\* the context block emitted only when there are recent commits
ContextBlockOnlyWithCommits(commits, branch) ==
    IF Len(commits) > 0
    THEN <<"CONTEXT:", NL, "Branch: ", branch, NL>> \o RecentCommitsContext(commits)
    ELSE <<>>

\* the CONTEXT part of the template: heading, branch line, recent commits
ContextBlock(commits, branch) ==
    <<"CONTEXT:", NL, "Branch: ", branch, NL>> \o RecentCommitsContext(commits)

\* the REQUIREMENTS part of the template
Requirements(cfg) ==
    <<"REQUIREMENTS:", NL,
      IF cfg.conventionalCommits
      THEN "- Use Conventional Commits format (type(scope): description)"
      ELSE "- Use clear, descriptive commit messages", NL,
      "- Maximum length: ", ToString(cfg.maxLength), " characters", NL,
      "- Be specific about what changed and why", NL,
      "- Use present tense (\"add\" not \"added\")", NL,
      "- Start with lowercase unless it's a proper noun", NL,
      IF cfg.includeBody
      THEN "- Include a body if the change is complex"
      ELSE "- Keep it concise, no body needed">>

\* the COMMIT TYPES part of the template
CommitTypes ==
    <<"COMMIT TYPES (if using conventional commits):", NL,
      "- feat: new feature", NL,
      "- fix: bug fix", NL,
      "- docs: documentation changes", NL,
      "- style: formatting, missing semicolons, etc.", NL,
      "- refactor: code restructuring without changing functionality", NL,
      "- test: adding or updating tests", NL,
      "- chore: maintenance tasks, dependencies, build process">>

\* the output instructions and the literal JSON example of the template
OutputFormat ==
    <<"Generate 3 different commit message suggestions, ranked by quality.", NL,
      "Format your response as JSON:", NL,
      NL,
      "{", NL,
      "  \"suggestions\": [", NL,
      "    {", NL,
      "      \"message\": \"commit message here\",", NL,
      "      \"confidence\": 95,", NL,
      "      \"reasoning\": \"why this message is good\"", NL,
      "    },", NL,
      "    {", NL,
      "      \"message\": \"alternative message\",", NL,
      "      \"confidence\": 85,", NL,
      "      \"reasoning\": \"explanation for this option\"", NL,
      "    },", NL,
      "    {", NL,
      "      \"message\": \"third option\",", NL,
      "      \"confidence\": 75,", NL,
      "      \"reasoning\": \"why this could work\"", NL,
      "    }", NL,
      "  ]", NL,
      "}">>

\* buildPrompt: the template with its interpolations; customPrompt is ""
\* when the configuration has none
buildPrompt(ds, cfg, commits, branch) ==
    <<"You are an expert developer assistant that generates high-quality git commit messages.",
      NL, NL>>
        \o ContextBlock(commits, branch)
        \o <<NL, NL, "CHANGES TO COMMIT:", NL>>
        \o ChangesDescription(ds)
        \o <<NL, NL>>
        \o Requirements(cfg)
        \o <<NL, NL>>
        \o CommitTypes
        \o <<NL, NL>>
        \o OutputFormat
        \o <<NL, NL>>
        \o (IF cfg.customPrompt # ""
            THEN <<NL, "ADDITIONAL INSTRUCTIONS:", NL, cfg.customPrompt>>
            ELSE <<>>)

----------------------------------------------------------------------------
(* The arguments buildPrompt is run on *)

FileNames == {"src/a.ts", "src/b.ts"}
ChangeLines == {"Added: x", "Removed: y"}
CommitSubjects == {"feat: one", "fix: two"}
Branches == {"main", "feature/x"}
Statuses == {"added", "modified", "deleted", "renamed"}

SeqsUpTo(S, n) == UNION {[1..k -> S] : k \in 0..n}

DefaultConfig ==
    [conventionalCommits |-> TRUE, maxLength |-> 72, includeBody |-> FALSE,
     customPrompt |-> ""]
Configs ==
    [conventionalCommits : BOOLEAN, maxLength : {72}, includeBody : BOOLEAN,
     customPrompt : {"", "Mention the ticket"}]

\* records with every change list up to MaxChanges lines
DiffRecords ==
    [file : FileNames, additions : {0, 12}, deletions : {7}, changes : SeqsUpTo(ChangeLines, MaxChanges),
     status : Statuses]

\* the records that fill lists of two and more
SmallRecords ==
    [file : FileNames, additions : {12}, deletions : {0},
     changes : {<<>>, <<"Removed: y", "Added: x">>,
                [i \in 1..MaxChanges |-> IF i % 3 = 0 THEN "Removed: y" ELSE "Added: x"]},
     status : {"added", "modified"}]

DiffLists ==
    {<<>>} \cup {<<d>> : d \in DiffRecords}
        \cup UNION {[1..k -> SmallRecords] : k \in 2..MaxDiffs}

----------------------------------------------------------------------------
(* GitAnalyzer.getStagedChanges *)

\* parseDiffChanges: the added and removed lines of a diff, the +++ and ---
\* header lines left out, cut to the first ten
RECURSIVE DiffChangesLoop(_, _, _)
DiffChangesLoop(lines, i, changes) ==
    IF i > Len(lines) THEN changes
    ELSE LET line == lines[i]
             three(tok) == Len(line) >= 3 /\ line[1] = tok /\ line[2] = tok /\ line[3] = tok
         IN  IF StartsWith(line, "+") /\ ~three("+")
             THEN DiffChangesLoop(lines, i + 1,
                                  Append(changes, <<"Added: ">> \o Trim(Tail(line))))
             ELSE IF StartsWith(line, "-") /\ ~three("-")
             THEN DiffChangesLoop(lines, i + 1,
                                  Append(changes, <<"Removed: ">> \o Trim(Tail(line))))
             ELSE DiffChangesLoop(lines, i + 1, changes)

parseDiffChanges(diff) == Slice(DiffChangesLoop(Split(diff), 1, <<>>), 10)

InSeq(x, seq) == \E i \in 1..Len(seq) : seq[i] = x

\* getFileStatus
getFileStatus(file, status) ==
    IF InSeq(file, status.created) THEN "added"
    ELSE IF InSeq(file, status.deleted) THEN "deleted"
    ELSE IF \E i \in 1..Len(status.renamed) : status.renamed[i].to = file THEN "renamed"
    ELSE "modified"

\* stagedFiles: staged, then created, then the modified files that are staged
StagedFiles(status) ==
    status.staged \o status.created
        \o SelectSeq(status.modified, LAMBDA file : InSeq(file, status.staged))

\* the record pushed for one staged file; the summary of a text file has
\* insertions and deletions, that of a binary file has not
AnalyzeFile(file, g) ==
    [file |-> file,
     additions |-> IF g.summary = "text" THEN g.insertions ELSE 0,
     deletions |-> IF g.summary = "text" THEN g.deletions ELSE 0,
     changes |-> parseDiffChanges(g.diff),
     status |-> getFileStatus(file, g.status)]

\* the for loop over stagedFiles: a file whose diff cannot be read is
\* logged and skipped
RECURSIVE AnalyzeLoop(_, _, _, _)
AnalyzeLoop(files, i, g, acc) ==
    IF i > Len(files) THEN acc
    ELSE IF files[i] \in g.diffFails THEN AnalyzeLoop(files, i + 1, g, acc)
    ELSE AnalyzeLoop(files, i + 1, g, Append(acc, AnalyzeFile(files[i], g)))

\* getStagedChanges: the records, or the error rethrown by the outer catch
getStagedChanges(g) ==
    IF g.repo = "error" THEN [threw |-> TRUE, value |-> <<>>]
    ELSE IF g.repo = "notrepo" THEN [threw |-> TRUE, value |-> <<>>]
    ELSE IF Len(StagedFiles(g.status)) = 0 THEN [threw |-> TRUE, value |-> <<>>]
    ELSE [threw |-> FALSE, value |-> AnalyzeLoop(StagedFiles(g.status), 1, g, <<>>)]

----------------------------------------------------------------------------
(* The repositories getStagedChanges is run on *)

\* the lists of a status result: each names a path at most once
PathLists == {<<>>, <<"src/a.ts">>, <<"src/b.ts">>, <<"src/a.ts", "src/b.ts">>,
              <<"src/b.ts", "src/a.ts">>}

StatusResults ==
    [staged : PathLists, created : PathLists, modified : PathLists,
     deleted : {<<>>, <<"src/a.ts">>},
     renamed : {<<>>, <<[from |-> "src/old.ts", to |-> "src/b.ts"]>>}]

\* the output of git diff --staged for one file
DiffTexts ==
    { <<>>,
      <<"-", "-", "-", SP, "a/src/a.ts", NL,
        "+", "+", "+", SP, "b/src/a.ts", NL,
        "@@ -1 +1 @@", NL,
        SP, "kept", NL,
        "-", SP, "old", SP, NL,
        "+", "new">>,
      Join([i \in 1..12 |-> <<"+", "line">>], <<NL>>) }

Repositories ==
    [repo : {"repo", "notrepo", "error"}, status : StatusResults,
     diffFails : SUBSET {"src/a.ts"}, diff : DiffTexts,
     summary : {"text", "binary", "missing"}, insertions : {3}, deletions : {1}]

NoRepository ==
    [repo |-> "repo",
     status |-> [staged |-> <<>>, created |-> <<>>, modified |-> <<>>, deleted |-> <<>>,
                 renamed |-> <<>>],
     diffFails |-> {}, diff |-> <<>>, summary |-> "missing", insertions |-> 3,
     deletions |-> 1]

NoStaged == [threw |-> FALSE, value |-> <<>>]

----------------------------------------------------------------------------
(* Specification of the parser: one call on one raw response *)

NoResult == [threw |-> FALSE, path |-> "none", warned |-> FALSE, value |-> <<>>]

\* the variables of the prompt builder while the parser is examined
PromptIdle ==
    /\ diffs = <<>>
    /\ config = DefaultConfig
    /\ recentCommits = <<>>
    /\ branchName = "main"
    /\ promptPc = "idle"
    /\ prompt = <<>>

\* the variables of the parser while the prompt builder is examined
ParseIdle ==
    /\ response = <<>>
    /\ parsePc = "idle"
    /\ result = NoResult

\* the variables of the change analysis while another function is examined
StagedIdle ==
    /\ git = NoRepository
    /\ stagedPc = "idle"
    /\ stagedResult = NoStaged

\* the variables of the generate command while a function is examined alone
GenIdle ==
    /\ options = [commit |-> FALSE, push |-> FALSE, interactive |-> TRUE]
    /\ geminiApiKey = Str(<<>>)
    /\ repository = NoRepository
    /\ genPc = "idle"
    /\ suggestionList = <<>>
    /\ selected = Undefined
    /\ selectedMessage = Undefined
    /\ effects = <<>>
    /\ exitCode = 0

InitParse ==
    /\ response \in Responses
    /\ parsePc = "start"
    /\ result = NoResult
    /\ PromptIdle
    /\ StagedIdle
    /\ GenIdle

ParseResponse ==
    /\ parsePc = "start"
    /\ result' = parseResponse(response)
    /\ parsePc' = "done"
    /\ UNCHANGED <<response, promptVars, stagedVars, genVars>>

NextParse == ParseResponse

SpecParse == InitParse /\ [][NextParse]_vars

----------------------------------------------------------------------------
(* Specification of the prompt builder: one call on one set of arguments *)

InitPrompt ==
    /\ \/ /\ diffs \in DiffLists
          /\ recentCommits \in {<<>>, <<"feat: one">>}
          /\ branchName = "main"
          /\ config = DefaultConfig
       \/ /\ diffs \in SeqsUpTo(SmallRecords, 1)
          /\ recentCommits \in SeqsUpTo(CommitSubjects, MaxCommits)
          /\ branchName \in Branches
          /\ config \in Configs
    /\ promptPc = "start"
    /\ prompt = <<>>
    /\ ParseIdle
    /\ StagedIdle
    /\ GenIdle

BuildPrompt ==
    /\ promptPc = "start"
    /\ prompt' = buildPrompt(diffs, config, recentCommits, branchName)
    /\ promptPc' = "done"
    /\ UNCHANGED <<diffs, config, recentCommits, branchName, parseVars, stagedVars,
                   genVars>>

NextPrompt == BuildPrompt

SpecPrompt == InitPrompt /\ [][NextPrompt]_vars

----------------------------------------------------------------------------
(* Specification of the change analysis: one call on one repository *)

InitStaged ==
    /\ git \in Repositories
    /\ stagedPc = "start"
    /\ stagedResult = NoStaged
    /\ ParseIdle
    /\ PromptIdle
    /\ GenIdle

GetStagedChanges ==
    /\ stagedPc = "start"
    /\ stagedResult' = getStagedChanges(git)
    /\ stagedPc' = "done"
    /\ UNCHANGED <<git, parseVars, promptVars, genVars>>

NextStaged == GetStagedChanges

SpecStaged == InitStaged /\ [][NextStaged]_vars

----------------------------------------------------------------------------
(* The generate command of the CLI: one invocation, cut into steps at the *)
(* awaited calls and at the commands it runs                              *)

\* the command-line options: --commit, --push and --no-interactive
OptionSets == [commit : BOOLEAN, push : BOOLEAN, interactive : BOOLEAN]

\* config.geminiApiKey: unset, set, or null in a configuration file
ApiKeys == {Str(<<>>), Str(<<"key">>), Null}

Repo(kind, staged, created, fails) ==
    [repo |-> kind,
     status |-> [staged |-> staged, created |-> created, modified |-> <<>>,
                 deleted |-> <<>>, renamed |-> <<>>],
     diffFails |-> fails, diff |-> <<"+", "new">>, summary |-> "text",
     insertions |-> 3, deletions |-> 1]

\* the repositories the command is run in: not a repository, nothing
\* staged, one staged file, one staged file whose diff cannot be read
GenRepositories ==
    { Repo("notrepo", <<>>, <<>>, {}),
      Repo("repo", <<>>, <<>>, {}),
      Repo("repo", <<"src/a.ts">>, <<>>, {}),
      Repo("repo", <<"src/a.ts">>, <<>>, {"src/a.ts"}) }

MessageOnly(val) == Record(<<Field("message", val, Compact)>>, Compact)

\* the texts the model answers with
GenTexts ==
    { <<>>,
      <<"not json at all">>,
      MsgLogin \o <<NL>> \o <<"fix", ":", SP, "typo">>,
      Payload(<<>>, Compact),
      Payload(<<FullElement>>, Compact),
      Payload(<<FullElement, MessageOnly(Lit(<<"cancel">>))>>, Compact),
      Payload(<<MessageOnly(Lit(<<"custom">>))>>, Compact),
      Payload(<<MessageOnly(<<"5">>)>>, Compact),
      Payload(<<Record(<<>>, Compact)>>, Compact) }

\* the outcomes of this.model.generateContent: a rejection or a text
ApiOutcomes ==
    {[ok |-> FALSE, text |-> <<>>]} \cup {[ok |-> TRUE, text |-> t] : t \in GenTexts}

\* what the user types at the custom-message prompt
CustomInputs == {<<>>, <<SP>>, <<"docs", ":", SP, "readme">>, <<SP, "wip">>, <<"cancel">>}

Cancel == Str(<<"cancel">>)
CustomChoice == Str(<<"custom">>)

\* the values of the menu entries: the suggestions' messages, custom, cancel
Choices(suggs) == {suggs[i].message : i \in 1..Len(suggs)} \cup {CustomChoice, Cancel}

\* process.exit(code), and the end of the process after the last statement
Exit(code) == genPc' = "exited" /\ exitCode' = code

\* from the chosen message to the commit: committing is a step of its own
\* when --commit was given, otherwise the command prints a hint and ends
Proceed == IF options.commit THEN genPc' = "commit" /\ UNCHANGED exitCode ELSE Exit(0)

InitGen ==
    /\ options \in OptionSets
    /\ geminiApiKey \in ApiKeys
    /\ repository \in GenRepositories
    /\ genPc = "loadConfig"
    /\ suggestionList = <<>>
    /\ selected = Undefined
    /\ selectedMessage = Undefined
    /\ effects = <<>>
    /\ exitCode = 0
    /\ ParseIdle
    /\ PromptIdle
    /\ StagedIdle

\* loadConfig and the check of the API key
LoadConfig ==
    /\ genPc = "loadConfig"
    /\ IF ~Truthy(geminiApiKey) THEN Exit(1)
       ELSE genPc' = "analyze" /\ UNCHANGED exitCode
    /\ UNCHANGED <<options, geminiApiKey, repository, suggestionList, selected,
                   selectedMessage, effects, parseVars, promptVars, stagedVars>>

\* getStagedChanges, getRecentCommits and getBranchName: only the first can
\* throw, and the outer catch then ends the process
Analyze ==
    /\ genPc = "analyze"
    /\ IF getStagedChanges(repository).threw THEN Exit(1)
       ELSE genPc' = "generate" /\ UNCHANGED exitCode
    /\ UNCHANGED <<options, geminiApiKey, repository, suggestionList, selected,
                   selectedMessage, effects, parseVars, promptVars, stagedVars>>

\* the catch of generateCommitMessage: an error is rethrown
Rethrow(parsed) ==
    IF parsed.threw THEN [threw |-> TRUE, value |-> <<>>]
    ELSE [threw |-> FALSE, value |-> parsed.value]

\* generateCommitMessage on one outcome of the call of the model: a
\* rejection is rethrown, a text is parsed
generateCommitMessage(outcome) ==
    IF ~outcome.ok THEN [threw |-> TRUE, value |-> <<>>]
    ELSE Rethrow(parseResponse(outcome.text))

\* a command that asks the model again after a failed call
SuggestedRetrying(returned) ==
    IF returned.threw
    THEN UNCHANGED <<genPc, exitCode, suggestionList, selectedMessage>>
    ELSE /\ suggestionList' = returned.value
         /\ IF Len(returned.value) = 0
            THEN Exit(1) /\ UNCHANGED selectedMessage
            ELSE IF options.interactive = FALSE
            THEN selectedMessage' = returned.value[1].message /\ Proceed
            ELSE genPc' = "select" /\ UNCHANGED <<exitCode, selectedMessage>>

\* what the command does with the outcome of generateCommitMessage: a throw
\* is caught by the outer catch and ends the process; an empty list ends
\* it too; with --no-interactive the first suggestion is chosen
Suggested(returned) ==
    IF returned.threw
    THEN Exit(1) /\ UNCHANGED <<suggestionList, selectedMessage>>
    ELSE /\ suggestionList' = returned.value
         /\ IF Len(returned.value) = 0
            THEN Exit(1) /\ UNCHANGED selectedMessage
            ELSE IF options.interactive = FALSE
            THEN selectedMessage' = returned.value[1].message /\ Proceed
            ELSE genPc' = "select" /\ UNCHANGED <<exitCode, selectedMessage>>

\* the one call of generateCommitMessage and what follows it up to the
\* selection menu
Generate ==
    /\ genPc = "generate"
    /\ \E outcome \in ApiOutcomes :
          /\ effects' = Append(effects, [cmd |-> "generateContent", ok |-> outcome.ok])
          /\ Suggested(generateCommitMessage(outcome))
    /\ UNCHANGED <<options, geminiApiKey, repository, selected, parseVars, promptVars,
                   stagedVars>>

\* a menu whose Cancel entry is taken as the message
SelectIgnoringCancel ==
    /\ genPc = "select"
    /\ \/ Exit(1) /\ UNCHANGED <<selected, selectedMessage>>
       \/ \E choice \in Choices(suggestionList) :
             /\ selected' = choice
             /\ IF choice = CustomChoice
                THEN genPc' = "custom" /\ UNCHANGED <<exitCode, selectedMessage>>
                ELSE selectedMessage' = choice /\ Proceed
    /\ UNCHANGED <<options, geminiApiKey, repository, suggestionList, effects, parseVars,
                   promptVars, stagedVars>>

\* the selection menu: the prompt rejects (the outer catch ends the
\* process), or the user picks an entry
Select ==
    /\ genPc = "select"
    /\ \/ Exit(1) /\ UNCHANGED <<selected, selectedMessage>>
       \/ \E choice \in Choices(suggestionList) :
             /\ selected' = choice
             /\ IF choice = Cancel
                THEN Exit(0) /\ UNCHANGED selectedMessage
                ELSE IF choice = CustomChoice
                THEN genPc' = "custom" /\ UNCHANGED <<exitCode, selectedMessage>>
                ELSE selectedMessage' = choice /\ Proceed
    /\ UNCHANGED <<options, geminiApiKey, repository, suggestionList, effects, parseVars,
                   promptVars, stagedVars>>

\* the custom-message prompt: it resolves only with an input that passes
\* validate, or rejects
Custom ==
    /\ genPc = "custom"
    /\ \/ Exit(1) /\ UNCHANGED selectedMessage
       \/ \E input \in CustomInputs :
             /\ Len(Trim(input)) > 0
             /\ selectedMessage' = Str(input)
             /\ Proceed
    /\ UNCHANGED <<options, geminiApiKey, repository, suggestionList, selected, effects,
                   parseVars, promptVars, stagedVars>>

\* a commit step that goes on to the push when the commit failed
CommitPushRegardless ==
    /\ genPc = "commit"
    /\ IF selectedMessage.t # "string"
       THEN Exit(1) /\ UNCHANGED effects
       ELSE \E ok \in BOOLEAN :
              /\ effects' = Append(effects, [cmd |-> "git commit", ok |-> ok])
              /\ IF options.push THEN genPc' = "push" /\ UNCHANGED exitCode
                 ELSE IF ok THEN Exit(0) ELSE Exit(1)
    /\ UNCHANGED <<options, geminiApiKey, repository, suggestionList, selected,
                   selectedMessage, parseVars, promptVars, stagedVars>>

\* the commit: selectedMessage.replace throws on a message that is not a
\* string, before any command is run; otherwise git commit runs and
\* succeeds or fails; a failure or a throw ends the process with status 1
Commit ==
    /\ genPc = "commit"
    /\ IF selectedMessage.t # "string"
       THEN Exit(1) /\ UNCHANGED effects
       ELSE \E ok \in BOOLEAN :
              /\ effects' = Append(effects, [cmd |-> "git commit", ok |-> ok])
              /\ IF ~ok THEN Exit(1)
                 ELSE IF options.push THEN genPc' = "push" /\ UNCHANGED exitCode
                 ELSE Exit(0)
    /\ UNCHANGED <<options, geminiApiKey, repository, suggestionList, selected,
                   selectedMessage, parseVars, promptVars, stagedVars>>

\* the push: its failure is reported and the command ends normally
Push ==
    /\ genPc = "push"
    /\ \E ok \in BOOLEAN :
          effects' = Append(effects, [cmd |-> "git push", ok |-> ok])
    /\ Exit(0)
    /\ UNCHANGED <<options, geminiApiKey, repository, suggestionList, selected,
                   selectedMessage, parseVars, promptVars, stagedVars>>

NextGen ==
    \/ LoadConfig
    \/ Analyze
    \/ Generate
    \/ Select
    \/ Custom
    \/ Commit
    \/ Push

SpecGen == InitGen /\ [][NextGen]_vars

----------------------------------------------------------------------------
(* Properties of parseResponse *)

IsSequence(x) == DOMAIN x = 1..Len(x)

\* the document JSON.parse sees, and whether its top level is a record
\* whose `suggestions` field is a sequence
ParsedDoc(raw) == JSONParse(Trim(ReplaceNewlines(raw)))
StructuredDoc(raw) ==
    /\ ~ParsedDoc(raw).threw
    /\ ParsedDoc(raw).v.t = "object"
    /\ GetProp(ParsedDoc(raw).v, <<"suggestions">>).v.t = "array"
DocElements(raw) == GetProp(ParsedDoc(raw).v, <<"suggestions">>).v.a

HasKey(v, key) == v.t = "object" /\ \E i \in 1..Len(v.m) : v.m[i].k = key

\* the raw lines the fallback is to keep: non-blank, with a colon, not
\* beginning with a brace
Qualifying(raw) ==
    {i \in 1..Len(Split(raw)) :
        LET line == Split(raw)[i]
        IN  /\ \E j \in 1..Len(line) : ~IsWs(line[j])
            /\ \E j \in 1..Len(line) : line[j] = ":"
            /\ At(line, 1) \notin {"{", "}"}}
\* the k-th qualifying line, in the order of the raw text
Kth(raw, k) ==
    CHOOSE i \in Qualifying(raw) : Cardinality({j \in Qualifying(raw) : j < i}) = k - 1

\* C1: for every raw response parseResponse returns a sequence and never
\* raises an error.
C1_NeverThrows ==
    parsePc = "done" => ~result.threw /\ IsSequence(result.value)

\* C1 witness: a call whose try block threw (a top-level null, a null
\* element, invalid or empty text) has returned
C1_Witness ==
    /\ parsePc = "done"
    /\ result.warned
    /\ ~ParsedDoc(response).threw
    /\ ~result.threw

\* C2 as stated: whichever path produced it, the returned sequence has
\* length 0..3.
C2_Original ==
    parsePc = "done" => Len(result.value) \in 0..3

\* C2 amended: on the fallback path the returned sequence has length 0..3;
\* on the structured path it has as many entries as the `suggestions`
\* sequence of the payload, however many those are.
C2_LengthByPath ==
    parsePc = "done" =>
        /\ result.path = "fallback" => Len(result.value) \in 0..3
        /\ result.path = "structured" =>
               Len(result.value) = Len(DocElements(response))

\* C2 witness: the fallback path cut more than three qualifying lines down
\* to three
C2_Witness ==
    /\ parsePc = "done"
    /\ result.path = "fallback"
    /\ Cardinality(Qualifying(response)) > 3
    /\ Len(result.value) = 3

\* C3 as stated: on the structured path there is one suggestion per
\* element, in order, each field equal to the element's own value when the
\* field is present (a confidence of 0 or an empty rationale included) and
\* to the default only when it is missing.
C3_FieldsKept ==
    parsePc = "done" /\ StructuredDoc(response) =>
        /\ result.path = "structured"
        /\ Len(result.value) = Len(DocElements(response))
        /\ \A i \in 1..Len(result.value) :
               LET el == DocElements(response)[i]
                   kept(key, default) ==
                       result.value[i][key] =
                           IF HasKey(el, <<key>>) THEN GetProp(el, <<key>>).v ELSE default
               IN  /\ kept("message", Str(<<>>))
                   /\ kept("confidence", Num(50, 1))
                   /\ kept("reasoning", Str(<<"No reasoning provided">>))

\* C4: when the structured interpretation throws or `suggestions` is absent
\* or not a sequence, the result is the first three (or fewer) qualifying
\* raw lines in their original order, each as a suggestion with the trimmed
\* line as message, confidence 70 and the fixed rationale.
C4_FallbackExtraction ==
    parsePc = "done" /\ (~StructuredDoc(response) \/ result.path = "fallback") =>
        /\ result.path = "fallback"
        /\ Len(result.value) =
               IF Cardinality(Qualifying(response)) < 3
               THEN Cardinality(Qualifying(response)) ELSE 3
        /\ \A k \in 1..Len(result.value) :
               /\ result.value[k].message = Str(Trim(Split(response)[Kth(response, k)]))
               /\ result.value[k].confidence = Num(70, 1)
               /\ result.value[k].reasoning = Str(<<"Extracted from AI response">>)

\* C4 witness: a fallback result taken from a text that also has a line
\* without a colon and a line beginning with a brace
C4_Witness ==
    /\ parsePc = "done"
    /\ result.path = "fallback"
    /\ Len(result.value) >= 2
    /\ \E i \in 1..Len(Split(response)) :
           Split(response)[i] # <<>> /\ ~Includes(Split(response)[i], ":")
    /\ \E i \in 1..Len(Split(response)) :
           StartsWith(Split(response)[i], "{") /\ Includes(Split(response)[i], ":")

\* a response that is a payload between an opening fence line (with or
\* without the json tag) and a closing fence line, and that payload
IsFenced(raw) ==
    /\ Len(raw) >= 4
    /\ raw[1] = FENCE
    /\ raw[2] = NL \/ (raw[2] = "json" /\ raw[3] = NL)
    /\ raw[Len(raw) - 1] = NL
    /\ raw[Len(raw)] = FENCE
Unfenced(raw) == SubSeq(raw, IF raw[2] = NL THEN 3 ELSE 4, Len(raw) - 2)

\* C5 as stated: a well-formed structured payload wrapped in code-fence
\* markers is parsed on the structured path and yields the same list as
\* the payload itself.
C5_FenceStripped ==
    parsePc = "done" /\ IsFenced(response) /\ StructuredDoc(Unfenced(response))
            /\ parseResponse(Unfenced(response)).path = "structured" =>
        /\ result.path = "structured"
        /\ result.value = parseResponse(Unfenced(response)).value

\* C6 as stated: every returned suggestion has an integer confidence in
\* 0..100.
C6_ConfidenceRange ==
    parsePc = "done" =>
        \A i \in 1..Len(result.value) :
            /\ result.value[i].confidence.t = "number"
            /\ result.value[i].confidence.d = 1
            /\ result.value[i].confidence.n \in 0..100

\* C7 as stated: every returned suggestion has a non-empty message.
C7_MessageNonEmpty ==
    parsePc = "done" =>
        \A i \in 1..Len(result.value) :
            /\ result.value[i].message.t = "string"
            /\ result.value[i].message.s # <<>>

----------------------------------------------------------------------------
(* Properties of buildPrompt *)

\* the positions of the prompt holding an atom of S, in increasing order
Positions(text, S) ==
    LET P == {i \in 1..Len(text) : text[i] \in S}
    IN  [k \in 1..Cardinality(P) |->
            CHOOSE i \in P : Cardinality({j \in P : j < i}) = k - 1]

Only(text, S) == SelectSeq(text, LAMBDA tok : tok \in S)

\* the part of the prompt from the k-th rendered file path up to the next
\* one (or the end of the prompt)
FileSegment(k) ==
    LET pos == Positions(prompt, FileNames)
    IN  SubSeq(prompt, pos[k], IF k < Len(pos) THEN pos[k + 1] - 1 ELSE Len(prompt))

FirstN(seq, n) == [i \in 1..(IF Len(seq) < n THEN Len(seq) ELSE n) |-> seq[i]]

\* C8: the prompt renders each record's file path once per record, in
\* record order, and for each record exactly the first min(5, n) of its n
\* change lines in their original order.
C8_FilesAndChanges ==
    promptPc = "done" =>
        /\ Only(prompt, FileNames) = [i \in 1..Len(diffs) |-> diffs[i].file]
        /\ \A k \in 1..Len(diffs) :
               /\ Only(FileSegment(k), ChangeLines) = FirstN(diffs[k].changes, 5)
               /\ Len(Only(FileSegment(k), ChangeLines)) <= 5
        /\ Len(Only(prompt, ChangeLines)) =
               Len(Only(Join([k \in 1..Len(diffs) |-> FileSegment(k)], <<>>), ChangeLines))

\* C8 witness: two records of the same file, one of them with more than
\* five change lines
C8_Witness ==
    /\ promptPc = "done"
    /\ Len(diffs) = 2
    /\ Len(diffs[1].changes) > 5
    /\ Len(diffs[2].changes) < 5
    /\ diffs[1].file = diffs[2].file

\* C9: with no recent commits the prompt has neither the recent-commits
\* heading nor a commit entry; otherwise the heading is followed by exactly
\* the first min(5, n) subjects in their original order.
C9_RecentCommits ==
    promptPc = "done" =>
        LET heading == Positions(prompt, {"Recent commits for context:"})
            shown == FirstN(recentCommits, 5)
        IN  /\ Only(prompt, CommitSubjects) = shown
            /\ Len(Only(prompt, {"- "})) = Len(shown)
            /\ recentCommits = <<>> => heading = <<>>
            /\ recentCommits # <<>> =>
                   /\ Len(heading) = 1
                   /\ \A i \in 1..Len(shown) :
                          SubSeq(prompt, heading[1] + 3 * i - 2, heading[1] + 3 * i)
                              = <<NL, "- ", shown[i]>>

\* C9 witness: more than five recent commits were passed
C9_Witness ==
    /\ promptPc = "done"
    /\ Len(recentCommits) > 5
    /\ recentCommits[5] # recentCommits[6]

\* C10 as stated: with no recent commits the prompt has neither the context
\* heading nor the branch line.
C10_Original ==
    promptPc = "done" /\ recentCommits = <<>> =>
        Only(prompt, {"CONTEXT:", "Branch: "}) = <<>>

\* C10 amended: with no recent commits the prompt still has the context
\* heading and the branch line with the given branch name, directly
\* followed by the changes section; only the recent-commits part is left
\* out.
C10_BranchAlwaysShown ==
    promptPc = "done" /\ recentCommits = <<>> =>
        /\ Only(prompt, {"CONTEXT:", "Branch: "} \cup Branches)
               = <<"CONTEXT:", "Branch: ", branchName>>
        /\ \E i \in 1..(Len(prompt) - 7) :
               SubSeq(prompt, i, i + 7)
                   = <<"CONTEXT:", NL, "Branch: ", branchName, NL, NL, NL, "CHANGES TO COMMIT:">>

\* C10 witness: a prompt built without recent commits on a branch other
\* than main
C10_Witness ==
    /\ promptPc = "done"
    /\ recentCommits = <<>>
    /\ branchName = "feature/x"

----------------------------------------------------------------------------
(* Properties of getStagedChanges *)

\* C11 as stated: no file path occurs in two records of the returned
\* sequence, whatever the staged, created and modified lists are.
C11_OneRecordPerFile ==
    stagedPc = "done" /\ ~stagedResult.threw =>
        \A i, j \in 1..Len(stagedResult.value) :
            i # j => stagedResult.value[i].file # stagedResult.value[j].file

----------------------------------------------------------------------------
(* Properties of the generate command *)

Ran(cmd) == {i \in 1..Len(effects) : effects[i].cmd = cmd}
Exited(code) == genPc = "exited" /\ exitCode = code

\* C12: in one invocation the text-generation service is called at most
\* once, also after a failed call or an empty result, and it is not called
\* at all when the API key is missing or the analysis of the staged changes
\* fails.
C12_AtMostOneApiCall ==
    /\ Cardinality(Ran("generateContent")) <= 1
    /\ ~Truthy(geminiApiKey) \/ getStagedChanges(repository).threw
           => Ran("generateContent") = {}
    /\ (Ran("generateContent") # {} /\ (~effects[1].ok \/ Len(suggestionList) = 0))
           => Exited(1) /\ Len(effects) = 1

\* an invocation whose only call of the service failed and which ended
C12_Witness ==
    /\ Exited(1)
    /\ effects = <<[cmd |-> "generateContent", ok |-> FALSE]>>

C14_CommitNeedsMessage ==
    /\ Ran("git commit") # {} => Len(suggestionList) > 0 /\ selectedMessage # Undefined
    /\ Ran("generateContent") # {} /\ Len(suggestionList) = 0
           => Exited(1) /\ Ran("git commit") = {} /\ Ran("git push") = {}
    /\ selected = Cancel
           => Exited(0) /\ Ran("git commit") = {} /\ Ran("git push") = {}

\* Cancel chosen in an invocation run with --commit and --push
C14_Witness ==
    /\ selected = Cancel
    /\ options.commit
    /\ options.push
    /\ Exited(0)

====
